---- MODULE Spec2Model ----
(***************************************************************************)
(* FixedIndexVec (src/src/fixed_index_vec): a Vec of positions (Empty,     *)
(* Reserved, Used(value)), a sorted deque of vacancies and a counter of    *)
(* reserved positions.  Indexes are 0-based as in the source; the TLA+     *)
(* sequence that holds the positions stores index i at i + 1.              *)
(***************************************************************************)
EXTENDS Integers, Sequences, FiniteSets, TLC

\* ---------------------------------------------------------------- bounds
MaxLen == 4
NumValues == 2
MaxReserved == 2
MaxItems == 2
MaxCycles == 3
MaxIndex == 2
MaxPairs == 2
MaxHandles == 2
MaxEqLen == 3

Values == 1..NumValues
Indexes == 0..MaxLen

\* usize: Rust guarantees at least 16 bits; the narrowest width is modelled.
UsizeModulus == 2^16

\* ------------------------------------------------------------ Pos, Option
Empty == [tag |-> "Empty", value |-> 0]
Reserved == [tag |-> "Reserved", value |-> 0]
Used(value) == [tag |-> "Used", value |-> value]

None == [some |-> FALSE, value |-> 0]
Some(value) == [some |-> TRUE, value |-> value]

is_empty(pos) == pos.tag = "Empty"
is_used(pos) == pos.tag = "Used"
is_reserved(pos) == pos.tag = "Reserved"
opt(pos) == IF pos.tag = "Used" THEN Some(pos.value) ELSE None
as_opt_ref(pos) == IF pos.tag = "Used" THEN Some(pos.value) ELSE None
as_opt_mut(pos) == IF pos.tag = "Used" THEN Some(pos.value) ELSE None

\* ---------------------------------------------------- Vec / VecDeque helpers
At(vals, index) == vals[index + 1]
SetAt(vals, index, pos) == [vals EXCEPT ![index + 1] = pos]

\* Vec::swap_remove: the last element takes the place of the removed one.
swap_remove(vals, index) ==
    LET n == Len(vals)
    IN  IF index = n - 1 THEN SubSeq(vals, 1, n - 1)
        ELSE SubSeq(SetAt(vals, index, vals[n]), 1, n - 1)

\* Vec::swap
\* mutant: copies b over a and leaves b as it was
swap_copy(vals, a, b) == [vals EXCEPT ![a + 1] = vals[b + 1]]

\* mutant: pushes the position at b to the end and leaves a and b as they were
swap_push(vals, a, b) == Append(vals, vals[b + 1])

swap(vals, a, b) == [vals EXCEPT ![a + 1] = vals[b + 1], ![b + 1] = vals[a + 1]]

\* VecDeque::insert
insert(deque, pos, index) ==
    SubSeq(deque, 1, pos) \o <<index>> \o SubSeq(deque, pos + 1, Len(deque))

\* VecDeque::partition_point with the predicate "element < index": a binary
\* search between left and right.
RECURSIVE PartitionSearch(_, _, _, _)
PartitionSearch(deque, index, left, right) ==
    IF left >= right THEN left
    ELSE LET mid == left + ((right - left) \div 2)
         IN  IF deque[mid + 1] < index
             THEN PartitionSearch(deque, index, mid + 1, right)
             ELSE PartitionSearch(deque, index, left, mid)

\* mutant: the end of the deque, whatever it holds
partition_point_back(deque, index) == Len(deque)

partition_point(deque, index) == PartitionSearch(deque, index, 0, Len(deque))

\* --------------------------------------------------------- FixedIndexVec
new == [values |-> <<>>, vacancies |-> <<>>, reserved_spaces |-> 0]

len(s) == Len(s.values)
reserved_spaces_len(s) == s.reserved_spaces
empty_spaces_len(s) == Len(s.vacancies)

\* values.len() - (reserved + empty) on usize: an underflow panics when the
\* build checks overflow and wraps when it does not.
used_spaces_len(s, overflow_checks) ==
    LET sub == reserved_spaces_len(s) + empty_spaces_len(s)
    IN  IF sub <= len(s) THEN [panic |-> FALSE, value |-> len(s) - sub]
        ELSE IF overflow_checks THEN [panic |-> TRUE, value |-> 0]
        ELSE [panic |-> FALSE, value |-> (len(s) - sub) % UsizeModulus]

contains_index_not_empty(s, index) ==
    index < Len(s.values) /\ ~is_empty(At(s.values, index))

contains_index(s, index) == index < Len(s.values) /\ is_used(At(s.values, index))

get(s, index) ==
    IF ~contains_index(s, index) THEN None ELSE as_opt_ref(At(s.values, index))

get_mut(s, index) ==
    IF ~contains_index(s, index) THEN None ELSE as_opt_mut(At(s.values, index))

\* values.iter().rev().take_while(is_empty).count()
RECURSIVE CountTrailingEmpty(_)
CountTrailingEmpty(vals) ==
    IF vals = <<>> THEN 0
    ELSE IF is_empty(vals[Len(vals)])
         THEN 1 + CountTrailingEmpty(SubSeq(vals, 1, Len(vals) - 1))
         ELSE 0

RECURSIVE SwapRemoveTimes(_, _, _)
SwapRemoveTimes(vals, index, times) ==
    IF times = 0 THEN vals
    ELSE SwapRemoveTimes(swap_remove(vals, index), index, times - 1)

\* mutant: drops one trailing Empty position instead of all of them
\* mutant: removes the trailing positions and keeps vacancies as it was
clean_right_no_retain(s) ==
    LET leading_empty_poses == CountTrailingEmpty(s.values)
    IN  IF leading_empty_poses = 0 THEN s
        ELSE [s EXCEPT !.values = SubSeq(s.values, 1,
                                         Len(s.values) - leading_empty_poses)]

clean_right_once(s) ==
    IF CountTrailingEmpty(s.values) = 0 THEN s
    ELSE [s EXCEPT
            !.values = swap_remove(s.values, Len(s.values) - 1),
            !.vacancies = SelectSeq(s.vacancies,
                                    LAMBDA vacant_index:
                                        vacant_index < Len(s.values) - 1)]

\* mutant: keeps the vacancy at first_index_to_remove (<= for <)
clean_right_retain_le(s) ==
    LET leading_empty_poses == CountTrailingEmpty(s.values)
        first_index_to_remove == Len(s.values) - leading_empty_poses
    IN  IF leading_empty_poses = 0 THEN s
        ELSE [s EXCEPT
                !.values = SwapRemoveTimes(s.values, first_index_to_remove,
                                           leading_empty_poses),
                !.vacancies = SelectSeq(s.vacancies,
                                        LAMBDA vacant_index:
                                            vacant_index <= first_index_to_remove)]

clean_right(s) ==
    LET leading_empty_poses == CountTrailingEmpty(s.values)
        first_index_to_remove == Len(s.values) - leading_empty_poses
    IN  IF leading_empty_poses = 0 THEN s
        ELSE [s EXCEPT
                !.values = SwapRemoveTimes(s.values, first_index_to_remove,
                                           leading_empty_poses),
                !.vacancies = SelectSeq(s.vacancies,
                                        LAMBDA vacant_index:
                                            vacant_index < first_index_to_remove)]

push(s, value) ==
    IF s.vacancies # <<>>
    THEN LET vacant_index == Head(s.vacancies)
         IN  [s |-> [s EXCEPT !.vacancies = Tail(s.vacancies),
                              !.values = SetAt(s.values, vacant_index, Used(value))],
              ret |-> vacant_index]
    ELSE [s |-> [s EXCEPT !.values = Append(s.values, Used(value))],
          ret |-> Len(s.values)]

\* mutant: takes the position out with Vec::swap_remove
\* mutant: vacancies.push_back(index) for the insert at the partition point
remove_push_back(s, index) ==
    IF index >= Len(s.values) \/ is_empty(At(s.values, index))
    THEN [s |-> s, ret |-> None]
    ELSE LET res == opt(At(s.values, index))
             taken == [s EXCEPT !.vacancies = Append(s.vacancies, index),
                                !.values = SetAt(s.values, index, Empty)]
         IN  [s |-> clean_right(taken), ret |-> res]

remove_swap_remove(s, index) ==
    IF index >= Len(s.values) \/ is_empty(At(s.values, index))
    THEN [s |-> s, ret |-> None]
    ELSE [s |-> clean_right([s EXCEPT !.values = swap_remove(s.values, index)]),
          ret |-> opt(At(s.values, index))]

\* mutant: leaves out the call of clean_right
remove_no_clean_right(s, index) ==
    IF index >= Len(s.values) \/ is_empty(At(s.values, index))
    THEN [s |-> s, ret |-> None]
    ELSE LET pos == partition_point(s.vacancies, index)
         IN  [s |-> [s EXCEPT !.vacancies = insert(s.vacancies, pos, index),
                              !.values = SetAt(s.values, index, Empty)],
              ret |-> opt(At(s.values, index))]

\* mutant: does not return early on an Empty position
remove_no_empty_check(s, index) ==
    IF index >= Len(s.values)
    THEN [s |-> s, ret |-> None]
    ELSE LET pos == partition_point(s.vacancies, index)
             res == opt(At(s.values, index))
             taken == [s EXCEPT !.vacancies = insert(s.vacancies, pos, index),
                                !.values = SetAt(s.values, index, Empty)]
         IN  [s |-> clean_right(taken), ret |-> res]

remove(s, index) ==
    IF index >= Len(s.values) \/ is_empty(At(s.values, index))
    THEN [s |-> s, ret |-> None]
    ELSE LET pos == partition_point(s.vacancies, index)
             res == opt(At(s.values, index))
             taken == [s EXCEPT !.vacancies = insert(s.vacancies, pos, index),
                                !.values = SetAt(s.values, index, Empty)]
         IN  [s |-> clean_right(taken), ret |-> res]

\* mutant: takes the last vacancy (pop_back) instead of the first
reserve_pos_pop_back(s) ==
    LET counted == [s EXCEPT !.reserved_spaces = s.reserved_spaces + 1]
        n == Len(s.vacancies)
    IN  IF s.vacancies # <<>>
        THEN [s |-> [counted EXCEPT
                        !.vacancies = SubSeq(s.vacancies, 1, n - 1),
                        !.values = SetAt(s.values, s.vacancies[n], Reserved)],
              ret |-> s.vacancies[n]]
        ELSE [s |-> [counted EXCEPT !.values = Append(s.values, Reserved)],
              ret |-> Len(s.values)]

reserve_pos(s) ==
    LET counted == [s EXCEPT !.reserved_spaces = s.reserved_spaces + 1]
    IN  IF s.vacancies # <<>>
        THEN LET vacant_index == Head(s.vacancies)
             IN  [s |-> [counted EXCEPT
                            !.vacancies = Tail(s.vacancies),
                            !.values = SetAt(s.values, vacant_index, Reserved)],
                  ret |-> vacant_index]
        ELSE [s |-> [counted EXCEPT !.values = Append(s.values, Reserved)],
              ret |-> Len(s.values)]

\* mutant: fills any position that is not Used
push_reserved_not_used(s, reserved_pos, value) ==
    IF reserved_pos >= Len(s.values) \/ is_used(At(s.values, reserved_pos))
    THEN [s |-> s, ret |-> Some(value)]
    ELSE [s |-> [s EXCEPT !.values = SetAt(s.values, reserved_pos, Used(value)),
                          !.reserved_spaces = s.reserved_spaces - 1],
          ret |-> None]

\* mutant: writes the value without looking at the position
push_reserved_no_check(s, reserved_pos, value) ==
    IF reserved_pos >= Len(s.values) THEN [s |-> s, ret |-> Some(value)]
    ELSE [s |-> [s EXCEPT !.values = SetAt(s.values, reserved_pos, Used(value)),
                          !.reserved_spaces = (s.reserved_spaces - 1) % UsizeModulus],
          ret |-> None]

push_reserved(s, reserved_pos, value) ==
    IF reserved_pos >= Len(s.values) \/ ~is_reserved(At(s.values, reserved_pos))
    THEN [s |-> s, ret |-> Some(value)]
    ELSE [s |-> [s EXCEPT !.values = SetAt(s.values, reserved_pos, Used(value)),
                          !.reserved_spaces = s.reserved_spaces - 1],
          ret |-> None]

\* mutant: forgets to count the reservation down
remove_reserved_pos_no_count(s, reserved_pos) ==
    IF reserved_pos >= Len(s.values) \/ ~is_reserved(At(s.values, reserved_pos))
    THEN [s |-> s, ret |-> FALSE]
    ELSE [s |-> [s EXCEPT !.values = SetAt(s.values, reserved_pos, Empty)],
          ret |-> TRUE]

remove_reserved_pos(s, reserved_pos) ==
    IF reserved_pos >= Len(s.values) \/ ~is_reserved(At(s.values, reserved_pos))
    THEN [s |-> s, ret |-> FALSE]
    ELSE [s |-> [s EXCEPT !.values = SetAt(s.values, reserved_pos, Empty),
                          !.reserved_spaces = s.reserved_spaces - 1],
          ret |-> TRUE]

\* One step of the cursor of compress: what it does (the decrement of line
\* 163, the read of line 165, the decrement of line 166 or the swap of line
\* 169), for which vacancy, and where the cursor is when it does it.
Access(op, vacant, end_cursor) ==
    [op |-> op, vacant |-> vacant, end_cursor |-> end_cursor]

\* the steps taken before the ones of the rest of the loop
After(accesses, looped) == [looped EXCEPT !.accesses = accesses \o @]

\* mutant: the while loop without its "if end_cursor <= vacant { return; }"
RECURSIVE SkipEmptyUnbounded(_, _, _)
SkipEmptyUnbounded(vals, end_cursor, vacant) ==
    LET read == Access("read", vacant, end_cursor)
        skip == Access("skip", vacant, end_cursor)
    IN  IF end_cursor < 0 \/ end_cursor >= Len(vals)
        THEN [cursor |-> end_cursor, panic |-> TRUE, accesses |-> <<read>>]
        ELSE IF is_empty(At(vals, end_cursor))
        THEN IF end_cursor = 0
             THEN [cursor |-> end_cursor, panic |-> TRUE, accesses |-> <<read, skip>>]
             ELSE After(<<read, skip>>, SkipEmptyUnbounded(vals, end_cursor - 1, vacant))
        ELSE [cursor |-> end_cursor, panic |-> FALSE, accesses |-> <<read>>]

\* the inner "while self.values[end_cursor].is_empty()" of compress: the
\* cursor it stops at, or the vacant index itself when the closure returns.
\* A read outside values and a decrement of 0 panic.
RECURSIVE SkipEmpty(_, _, _)
SkipEmpty(vals, end_cursor, vacant) ==
    LET read == Access("read", vacant, end_cursor)
        skip == Access("skip", vacant, end_cursor)
    IN  IF end_cursor < 0 \/ end_cursor >= Len(vals)
        THEN [cursor |-> end_cursor, panic |-> TRUE, accesses |-> <<read>>]
        ELSE IF is_empty(At(vals, end_cursor))
        THEN IF end_cursor = 0
             THEN [cursor |-> end_cursor, panic |-> TRUE, accesses |-> <<read, skip>>]
             ELSE IF end_cursor - 1 <= vacant
             THEN [cursor |-> end_cursor - 1, panic |-> FALSE,
                   accesses |-> <<read, skip>>]
             ELSE After(<<read, skip>>, SkipEmpty(vals, end_cursor - 1, vacant))
        ELSE [cursor |-> end_cursor, panic |-> FALSE, accesses |-> <<read>>]

\* the for_each over the taken vacancies
RECURSIVE CompressLoop(_, _, _, _, _)
CompressLoop(vals, vacancies, end_cursor, index_results, save_results) ==
    IF vacancies = <<>>
    THEN [values |-> vals, index_results |-> index_results,
          panic |-> FALSE, accesses |-> <<>>]
    ELSE LET vacant == Head(vacancies)
             rest == Tail(vacancies)
             decrement == Access("decrement", vacant, end_cursor)
         IN  IF end_cursor <= vacant
             THEN CompressLoop(vals, rest, end_cursor, index_results, save_results)
             ELSE IF end_cursor - 1 <= vacant
             THEN After(<<decrement>>,
                        CompressLoop(vals, rest, end_cursor - 1, index_results,
                                     save_results))
             ELSE LET skipped == SkipEmpty(vals, end_cursor - 1, vacant)
                      cursor == skipped.cursor
                      before == <<decrement>> \o skipped.accesses
                  IN  IF skipped.panic
                      THEN [values |-> vals, index_results |-> index_results,
                            panic |-> TRUE, accesses |-> before]
                      ELSE IF cursor <= vacant
                      THEN After(before,
                                 CompressLoop(vals, rest, cursor, index_results,
                                              save_results))
                      ELSE After(Append(before, Access("swap", vacant, cursor)),
                                 CompressLoop(swap(vals, vacant, cursor), rest, cursor,
                                              IF save_results
                                              THEN Append(index_results, <<cursor, vacant>>)
                                              ELSE index_results,
                                              save_results))

\* mutant: leaves out the clean_right after the loop
compress_no_final_clean_right(s, save_results) ==
    LET trimmed == clean_right(s)
    IN  IF trimmed.vacancies = <<>> THEN [s |-> trimmed, ret |-> <<>>]
        ELSE LET looped == CompressLoop(trimmed.values, trimmed.vacancies,
                                        Len(trimmed.values), <<>>, save_results)
             IN  [s |-> [trimmed EXCEPT !.values = looped.values,
                                        !.vacancies = <<>>],
                  ret |-> looped.index_results]

\* mutant: records (vacant, end_cursor) for (end_cursor, vacant)
compress_pairs_reversed(s, save_results) ==
    LET trimmed == clean_right(s)
    IN  IF trimmed.vacancies = <<>> THEN [s |-> trimmed, ret |-> <<>>]
        ELSE LET looped == CompressLoop(trimmed.values, trimmed.vacancies,
                                        Len(trimmed.values), <<>>, save_results)
             IN  [s |-> clean_right([trimmed EXCEPT !.values = looped.values,
                                                    !.vacancies = <<>>]),
                  ret |-> [k \in 1..Len(looped.index_results) |->
                              <<looped.index_results[k][2],
                                looped.index_results[k][1]>>]]

\* mutant: closes the gaps by shifting every later position to the left
compress_shift_left(s, save_results) ==
    LET trimmed == clean_right(s)
        not_empty(pos) == ~is_empty(pos)
    IN  [s |-> [trimmed EXCEPT !.values = SelectSeq(trimmed.values, not_empty),
                               !.vacancies = <<>>],
         ret |-> <<>>]

\* mutant: the last swap is left out of the report
compress_drops_last_pair(s, save_results) ==
    LET trimmed == clean_right(s)
    IN  IF trimmed.vacancies = <<>> THEN [s |-> trimmed, ret |-> <<>>]
        ELSE LET looped == CompressLoop(trimmed.values, trimmed.vacancies,
                                        Len(trimmed.values), <<>>, save_results)
             IN  [s |-> clean_right([trimmed EXCEPT !.values = looped.values,
                                                    !.vacancies = <<>>]),
                  ret |-> SubSeq(looped.index_results, 1,
                                 Len(looped.index_results) - 1)]

\* mutant: the report lists the last swap first
compress_report_last_first(s, save_results) ==
    LET trimmed == clean_right(s)
    IN  IF trimmed.vacancies = <<>> THEN [s |-> trimmed, ret |-> <<>>]
        ELSE LET looped == CompressLoop(trimmed.values, trimmed.vacancies,
                                        Len(trimmed.values), <<>>, save_results)
                 count == Len(looped.index_results)
             IN  [s |-> clean_right([trimmed EXCEPT !.values = looped.values,
                                                    !.vacancies = <<>>]),
                  ret |-> [k \in 1..count |-> looped.index_results[count + 1 - k]]]

\* mutant: without save_results only the right end is trimmed
compress_moves_only_when_saving(s, save_results) ==
    LET trimmed == clean_right(s)
    IN  IF trimmed.vacancies = <<>> \/ ~save_results
        THEN [s |-> trimmed, ret |-> <<>>]
        ELSE LET looped == CompressLoop(trimmed.values, trimmed.vacancies,
                                        Len(trimmed.values), <<>>, save_results)
             IN  [s |-> clean_right([trimmed EXCEPT !.values = looped.values,
                                                    !.vacancies = <<>>]),
                  ret |-> looped.index_results]

\* mutant: vacancies is read, not taken
compress_keeps_vacancies(s, save_results) ==
    LET trimmed == clean_right(s)
    IN  IF trimmed.vacancies = <<>> THEN [s |-> trimmed, ret |-> <<>>]
        ELSE LET looped == CompressLoop(trimmed.values, trimmed.vacancies,
                                        Len(trimmed.values), <<>>, save_results)
             IN  [s |-> clean_right([trimmed EXCEPT !.values = looped.values]),
                  ret |-> looped.index_results]

compress(s, save_results) ==
    LET trimmed == clean_right(s)
    IN  IF trimmed.vacancies = <<>> THEN [s |-> trimmed, ret |-> <<>>]
        ELSE LET looped == CompressLoop(trimmed.values, trimmed.vacancies,
                                        Len(trimmed.values), <<>>, save_results)
             IN  [s |-> clean_right([trimmed EXCEPT !.values = looped.values,
                                                    !.vacancies = <<>>]),
                  ret |-> looped.index_results]

\* mutant: compares the supplied index with the new index of each pair
update_old_indexes_matches_new(report, old_indexes_iter) ==
    [k \in 1..Len(old_indexes_iter) |->
        LET value == old_indexes_iter[k]
            found == SelectSeq(report, LAMBDA changed: value = changed[2])
        IN  IF found = <<>> THEN value ELSE Head(found)[2]]

\* mutant: treats each pair as an exchange and also maps new to old
update_old_indexes_both_ways(report, old_indexes_iter) ==
    [k \in 1..Len(old_indexes_iter) |->
        LET value == old_indexes_iter[k]
            found == SelectSeq(report, LAMBDA changed: value = changed[1])
            back == SelectSeq(report, LAMBDA changed: value = changed[2])
        IN  IF found # <<>> THEN Head(found)[2]
            ELSE IF back # <<>> THEN Head(back)[1]
            ELSE value]

\* CompressResult::update_old_indexes: every index of the iterator that equals
\* the old index of a pair is replaced by the new index of the first such pair.
update_old_indexes(report, old_indexes_iter) ==
    [k \in 1..Len(old_indexes_iter) |->
        LET value == old_indexes_iter[k]
            found == SelectSeq(report, LAMBDA changed: value = changed[1])
        IN  IF found = <<>> THEN value ELSE Head(found)[2]]

\* the closure of the map of iter, iter_mut and into_iter: the value of a Used
\* position, panic!() for any other
UsedValue(pos) ==
    IF pos.tag = "Used" THEN [panic |-> FALSE, value |-> pos.value]
    ELSE [panic |-> TRUE, value |-> 0]

\* the items the map yields up to its first panic
MapUsedValue(filtered) ==
    LET panics == {k \in 1..Len(filtered) : UsedValue(filtered[k]).panic}
        yielded == IF panics = {} THEN Len(filtered)
                   ELSE (CHOOSE k \in panics : \A j \in panics : k <= j) - 1
    IN  [panic |-> panics # {},
         items |-> [k \in 1..yielded |-> UsedValue(filtered[k]).value]]

\* mutant: the filter lets every position that is not Empty through
iter_filter_not_empty(s) ==
    LET not_empty(pos) == ~is_empty(pos)
    IN  MapUsedValue(SelectSeq(s.values, not_empty))

\* iter(): values.iter().filter(is_used).map(..), run to its end
iter(s) == MapUsedValue(SelectSeq(s.values, is_used))

\* iter_mut(): values.iter_mut().filter(is_used).map(..)
iter_mut(s) == MapUsedValue(SelectSeq(s.values, is_used))

\* the inherent into_iter(): values.into_iter().filter(is_used).map(..)
into_iter(s) == MapUsedValue(SelectSeq(s.values, is_used))

\* mutant: leaves reserved_spaces as it was
clear_keeps_reserved(s) == [s EXCEPT !.values = <<>>, !.vacancies = <<>>]

clear(s) == [s EXCEPT !.values = <<>>, !.vacancies = <<>>, !.reserved_spaces = 0]

\* PartialEq::eq.  used_spaces_len() decides the order of the two comparisons
\* and panics with it when it underflows in a build that checks overflow.
eq(self, other, overflow_checks) ==
    LET lengths_are_equal == /\ self.reserved_spaces = other.reserved_spaces
                             /\ Len(self.vacancies) = Len(other.vacancies)
                             /\ Len(self.values) = Len(other.values)
        used == used_spaces_len(self, overflow_checks)
    IN  IF ~lengths_are_equal THEN [panic |-> FALSE, value |-> FALSE]
        ELSE IF used.panic THEN [panic |-> TRUE, value |-> FALSE]
        ELSE IF used.value > Len(self.vacancies)
        THEN [panic |-> FALSE,
              value |-> self.values = other.values /\ self.vacancies = other.vacancies]
        ELSE [panic |-> FALSE,
              value |-> self.vacancies = other.vacancies /\ self.values = other.values]

\* mutant: appends every value and leaves the vacancies alone
RECURSIVE extend_push_only(_, _)
extend_push_only(s, items) ==
    IF items = <<>> THEN s
    ELSE extend_push_only([s EXCEPT !.values = Append(s.values, Used(Head(items)))],
                          Tail(items))

\* Extend<Value>::extend
RECURSIVE extend(_, _)
extend(s, items) ==
    IF items = <<>> THEN s
    ELSE LET value == Head(items)
             next == IF s.vacancies # <<>>
                     THEN [s EXCEPT !.vacancies = Tail(s.vacancies),
                                    !.values = SetAt(s.values, Head(s.vacancies),
                                                     Used(value))]
                     ELSE [s EXCEPT !.values = Append(s.values, Used(value))]
         IN  extend(next, Tail(items))

\* From<ValueIterator>::from
from(items) == [new EXCEPT !.values = [k \in 1..Len(items) |-> Used(items[k])]]


\* ------------------------------------------------------------------ state
VARIABLES
    values,           \* FixedIndexVec::values
    vacancies,        \* FixedIndexVec::vacancies
    reserved_spaces,  \* FixedIndexVec::reserved_spaces
    pre,              \* the three fields as they were when the last call began
    last,             \* the call that has just returned: operation, arguments
                      \* and result (Idle once the caller has taken it)
    untrimmed,        \* a reservation was cancelled and clean_right has not
                      \* run since
    second,           \* a second FixedIndexVec, for eq (EqSpec)
    reused            \* which of the two has pushed into a vacancy (EqSpec)

vars == <<values, vacancies, reserved_spaces, pre, last, untrimmed, second, reused>>

State == [values |-> values, vacancies |-> vacancies,
          reserved_spaces |-> reserved_spaces]

NoCall == [op |-> "new", index |-> 0, value |-> 0, save_results |-> FALSE,
           items |-> <<>>, ret_index |-> 0, ret_opt |-> None, ret_bool |-> FALSE,
           ret_pairs |-> <<>>, old_indexes |-> <<>>, ret_indexes |-> <<>>,
           ret_items |-> <<>>, panic |-> FALSE]

\* Neither container has pushed into a vacancy.
NoReuse == [self |-> FALSE, other |-> FALSE]

\* No call is in progress or waiting to be looked at.
Idle == [NoCall EXCEPT !.op = "idle"]

\* A call runs from the fields alone: it leaves the new fields, the fields it
\* started from and its record.
Call(s, call) ==
    /\ last = Idle
    /\ values' = s.values
    /\ vacancies' = s.vacancies
    /\ reserved_spaces' = s.reserved_spaces
    /\ pre' = State
    /\ last' = call
    /\ UNCHANGED <<second, reused>>

Iters(n) == UNION {[1..k -> Values] : k \in 0..n}

\* The container is constructed by new() or by from(items); from(<<>>) is the
\* state new() gives.
Init ==
    \E items \in Iters(MaxItems) :
        /\ values = from(items).values
        /\ vacancies = from(items).vacancies
        /\ reserved_spaces = from(items).reserved_spaces
        /\ pre = new
        /\ last = IF items = <<>> THEN NoCall
                  ELSE [NoCall EXCEPT !.op = "from", !.items = items]
        /\ untrimmed = FALSE
        /\ second = new
        /\ reused = NoReuse

\* ---------------------------------------------------------------- actions
Push(value) ==
    /\ vacancies # <<>> \/ Len(values) < MaxLen
    /\ LET r == push(State, value)
       IN  /\ Call(r.s, [NoCall EXCEPT !.op = "push", !.value = value,
                                       !.ret_index = r.ret])
    /\ UNCHANGED untrimmed

Remove(index) ==
    LET r == remove(State, index)
    IN  /\ Call(r.s, [NoCall EXCEPT !.op = "remove", !.index = index,
                                    !.ret_opt = r.ret])
        /\ untrimmed' = IF index < Len(values) /\ ~is_empty(At(values, index))
                        THEN FALSE ELSE untrimmed

ReservePos ==
    /\ vacancies # <<>> \/ Len(values) < MaxLen
    /\ reserved_spaces < MaxReserved
    /\ LET r == reserve_pos(State)
       IN  Call(r.s, [NoCall EXCEPT !.op = "reserve_pos", !.ret_index = r.ret])
    /\ UNCHANGED untrimmed

PushReserved(reserved_pos, value) ==
    LET r == push_reserved(State, reserved_pos, value)
    IN  /\ Call(r.s, [NoCall EXCEPT !.op = "push_reserved", !.index = reserved_pos,
                                    !.value = value, !.ret_opt = r.ret])
        /\ UNCHANGED untrimmed

RemoveReservedPos(reserved_pos) ==
    LET r == remove_reserved_pos(State, reserved_pos)
    IN  /\ Call(r.s, [NoCall EXCEPT !.op = "remove_reserved_pos",
                                    !.index = reserved_pos, !.ret_bool = r.ret])
        /\ untrimmed' = (untrimmed \/ r.ret)

CleanRight ==
    /\ Call(clean_right(State), [NoCall EXCEPT !.op = "clean_right"])
    /\ untrimmed' = FALSE

Compress(save_results) ==
    LET r == compress(State, save_results)
    IN  /\ Call(r.s, [NoCall EXCEPT !.op = "compress",
                                    !.save_results = save_results,
                                    !.ret_pairs = r.ret])
        /\ untrimmed' = FALSE

Clear ==
    /\ Call(clear(State), [NoCall EXCEPT !.op = "clear"])
    /\ untrimmed' = FALSE

Extend(items) ==
    /\ Len(values) - Len(vacancies) + Len(items) <= MaxLen
    /\ Call(extend(State, items), [NoCall EXCEPT !.op = "extend", !.items = items])
    /\ UNCHANGED untrimmed

ContainsIndex(index) ==
    /\ Call(State, [NoCall EXCEPT !.op = "contains_index", !.index = index,
                                  !.ret_bool = contains_index(State, index)])
    /\ UNCHANGED untrimmed

Get(index) ==
    /\ Call(State, [NoCall EXCEPT !.op = "get", !.index = index,
                                  !.ret_opt = get(State, index)])
    /\ UNCHANGED untrimmed

GetMut(index) ==
    /\ Call(State, [NoCall EXCEPT !.op = "get_mut", !.index = index,
                                  !.ret_opt = get_mut(State, index)])
    /\ UNCHANGED untrimmed

\* iter() run to its end; the container is only read
Iter ==
    /\ Call(State, [NoCall EXCEPT !.op = "iter", !.ret_items = iter(State).items,
                                  !.panic = iter(State).panic])
    /\ UNCHANGED untrimmed

IterMut ==
    /\ Call(State, [NoCall EXCEPT !.op = "iter_mut",
                                  !.ret_items = iter_mut(State).items,
                                  !.panic = iter_mut(State).panic])
    /\ UNCHANGED untrimmed

\* into_iter() takes the container by value: it runs on a clone, the
\* container the later calls work on is the original.
IntoIter ==
    /\ Call(State, [NoCall EXCEPT !.op = "into_iter",
                                  !.ret_items = into_iter(State).items,
                                  !.panic = into_iter(State).panic])
    /\ UNCHANGED untrimmed

\* The caller has taken the result of the last call: its record is dropped,
\* the fields stay as the call left them.
Return ==
    /\ last # Idle
    /\ last' = Idle
    /\ pre' = State
    /\ UNCHANGED <<values, vacancies, reserved_spaces, untrimmed, second, reused>>

Next ==
    \/ \E value \in Values : Push(value)
    \/ \E index \in Indexes : Remove(index)
    \/ ReservePos
    \/ \E index \in Indexes, value \in Values : PushReserved(index, value)
    \/ \E index \in Indexes : RemoveReservedPos(index)
    \/ CleanRight
    \/ \E save_results \in BOOLEAN : Compress(save_results)
    \/ Clear
    \/ \E items \in Iters(MaxItems) : Extend(items)
    \/ \E index \in Indexes : ContainsIndex(index)
    \/ \E index \in Indexes : Get(index)
    \/ \E index \in Indexes : GetMut(index)
    \/ Iter
    \/ IterMut
    \/ IntoIter
    \/ Return

Spec == Init /\ [][Next]_vars


\* ------------------------------------------------------- claim vocabulary
\* ------------------------------------------- CompressResult on its own
\* CompressResult(pub Vec<(usize, usize)>): the field is public, so a report
\* is any vector of pairs, here of at most MaxPairs pairs over 0..MaxIndex.
Pairs == (0..MaxIndex) \X (0..MaxIndex)
Reports == UNION {[1..k -> Pairs] : k \in 0..MaxPairs}

\* the indexes a caller hands to update_old_indexes
Handles == UNION {[1..k -> 0..MaxIndex] : k \in 0..MaxHandles}

\* A report exists and no index has been passed through it yet.
UpdateInit ==
    \E report \in Reports :
        /\ values = new.values
        /\ vacancies = new.vacancies
        /\ reserved_spaces = new.reserved_spaces
        /\ pre = new
        /\ last = [NoCall EXCEPT !.op = "report", !.ret_pairs = report]
        /\ untrimmed = FALSE
        /\ second = new
        /\ reused = NoReuse

\* update_old_indexes on indexes that have not been through the report
UpdateOldIndexes(old_indexes_iter) ==
    /\ last.op = "report"
    /\ last' = [last EXCEPT !.op = "update_old_indexes",
                            !.old_indexes = old_indexes_iter,
                            !.ret_indexes = update_old_indexes(last.ret_pairs,
                                                               old_indexes_iter)]
    /\ UNCHANGED <<values, vacancies, reserved_spaces, pre, untrimmed, second, reused>>

\* update_old_indexes on the indexes the call before left
UpdateAgain ==
    /\ last.op = "update_old_indexes"
    /\ last' = [last EXCEPT !.op = "update_again",
                            !.old_indexes = last.ret_indexes,
                            !.ret_indexes = update_old_indexes(last.ret_pairs,
                                                               last.ret_indexes)]
    /\ UNCHANGED <<values, vacancies, reserved_spaces, pre, untrimmed, second, reused>>

UpdateNext ==
    \/ \E old_indexes_iter \in Handles : UpdateOldIndexes(old_indexes_iter)
    \/ UpdateAgain

UpdateSpec == UpdateInit /\ [][UpdateNext]_vars

\* ------------------------------------------------- two containers and eq
\* Two containers are built by from() out of the same values; each is then
\* driven by its own pushes and removes, up to MaxEqLen positions.
EqInit ==
    \E items \in Iters(MaxItems) :
        /\ values = from(items).values
        /\ vacancies = from(items).vacancies
        /\ reserved_spaces = from(items).reserved_spaces
        /\ second = from(items)
        /\ reused = NoReuse
        /\ pre = new
        /\ last = Idle
        /\ untrimmed = FALSE

SelfPush(value) ==
    /\ vacancies # <<>> \/ Len(values) < MaxEqLen
    /\ values' = push(State, value).s.values
    /\ vacancies' = push(State, value).s.vacancies
    /\ reserved_spaces' = push(State, value).s.reserved_spaces
    /\ reused' = [reused EXCEPT !.self = @ \/ vacancies # <<>>]
    /\ UNCHANGED <<second, pre, last, untrimmed>>

SelfRemove(index) ==
    /\ values' = remove(State, index).s.values
    /\ vacancies' = remove(State, index).s.vacancies
    /\ reserved_spaces' = remove(State, index).s.reserved_spaces
    /\ UNCHANGED <<second, reused, pre, last, untrimmed>>

OtherPush(value) ==
    /\ second.vacancies # <<>> \/ Len(second.values) < MaxEqLen
    /\ second' = push(second, value).s
    /\ reused' = [reused EXCEPT !.other = @ \/ second.vacancies # <<>>]
    /\ UNCHANGED <<values, vacancies, reserved_spaces, pre, last, untrimmed>>

OtherRemove(index) ==
    /\ second' = remove(second, index).s
    /\ UNCHANGED <<values, vacancies, reserved_spaces, reused, pre, last, untrimmed>>

EqNext ==
    \/ \E value \in Values : SelfPush(value)
    \/ \E index \in 0..MaxEqLen : SelfRemove(index)
    \/ \E value \in Values : OtherPush(value)
    \/ \E index \in 0..MaxEqLen : OtherRemove(index)

EqSpec == EqInit /\ [][EqNext]_vars

\* ------------------------------------------------------ claim vocabulary
EmptyIndexes(s) == {i \in 0..(Len(s.values) - 1) : At(s.values, i).tag = "Empty"}
ReservedIndexes(s) == {i \in 0..(Len(s.values) - 1) : At(s.values, i).tag = "Reserved"}
UsedIndexes(s) == {i \in 0..(Len(s.values) - 1) : At(s.values, i).tag = "Used"}

StrictlyAscending(seq) == \A k \in 1..(Len(seq) - 1) : seq[k] < seq[k + 1]
Members(seq) == {seq[k] : k \in 1..Len(seq)}

NoTrailingGap(s) ==
    Len(s.values) = 0 \/ At(s.values, Len(s.values) - 1).tag # "Empty"

\* the call found a position it could take out (it did not return early)
RemoveTookSlot ==
    /\ last.op = "remove"
    /\ last.index < Len(pre.values)
    /\ At(pre.values, last.index).tag # "Empty"

\* ---------------------------------------------------------------- claims

\* C1: handle stability.  Every push(v) leaves the index it returns Used
\* with v, and every push or remove call leaves each index that held a value
\* before it, other than the index passed to remove, holding the same value:
\* so a handle stays valid over any run of push and remove calls up to the
\* first remove of that handle.
C1_HandleStability ==
    last.op \in {"push", "remove"} =>
        /\ last.op = "push" =>
               /\ contains_index(State, last.ret_index)
               /\ get(State, last.ret_index) = Some(last.value)
               /\ ~contains_index(pre, last.ret_index)
        /\ \A i \in Indexes :
               (contains_index(pre, i) /\ ~(last.op = "remove" /\ last.index = i))
                   => /\ contains_index(State, i)
                      /\ get(State, i) = get(pre, i)

\* a remove in the middle of other live handles that also trimmed the store
C1_Witness ==
    /\ RemoveTookSlot
    /\ Len(values) < Len(pre.values)
    /\ \E i \in Indexes : i # last.index /\ contains_index(pre, i)
                          /\ get(State, i) = get(pre, i)
                          /\ get(State, i).some

\* C2: free-list correctness.  vacancies is exactly the ascending,
\* duplicate-free list of the indexes below len() whose position is Empty.
C2_FreeListExact ==
    /\ StrictlyAscending(vacancies)
    /\ Members(vacancies) = EmptyIndexes(State)

\* C3: reserved_spaces_len() is the number of Reserved positions.
C3_ReservedCount ==
    reserved_spaces_len(State) = Cardinality(ReservedIndexes(State))

\* C4: used_spaces_len() + reserved_spaces_len() + empty_spaces_len() = len(),
\* whichever way the build treats overflow.
C4_CountsAddUp ==
    \A overflow_checks \in BOOLEAN :
        LET used == used_spaces_len(State, overflow_checks)
        IN  /\ ~used.panic
            /\ used.value + reserved_spaces_len(State) + empty_spaces_len(State)
                   = len(State)

\* C5: used_spaces_len() is the number of Used positions, which is the number
\* of items iter() yields.
C5_UsedCount ==
    \A overflow_checks \in BOOLEAN :
        LET used == used_spaces_len(State, overflow_checks)
        IN  /\ ~used.panic
            /\ used.value = Cardinality(UsedIndexes(State))
            /\ used.value = Len(iter(State).items)

\* C6 as stated: between public operations the last position of a non-empty
\* store is never Empty.
C6_LastNeverEmpty == NoTrailingGap(State)

\* C6 amended: the last position of a non-empty store is not Empty unless a
\* remove_reserved_pos call emptied a position and no trailing trim (a remove
\* that took a position out, compress, clean_right or clear) has run since.
C6_LastNeverEmptyUnlessCancelled == ~untrimmed => NoTrailingGap(State)

\* a remove trimmed a store that a cancelled reservation had left with a
\* trailing Empty position
C6_Witness ==
    /\ RemoveTookSlot
    /\ ~NoTrailingGap(pre)
    /\ Len(values) > 0
    /\ ~untrimmed

\* C7 as stated: after any call of remove, whatever the index and whatever it
\* returns, len() = 0 or the last position is not Empty.
C7_NoTrailingGapAfterAnyRemove == last.op = "remove" => NoTrailingGap(State)

\* C7 amended: after a call of remove whose index is below len() and whose
\* position is not Empty (the call that takes a position out), len() = 0 or
\* the last position is not Empty.
C7_NoTrailingGapAfterRemoval == RemoveTookSlot => NoTrailingGap(State)

\* a removal that trimmed two or more positions and left a non-empty store
C7_Witness ==
    /\ RemoveTookSlot
    /\ Len(values) + 2 <= Len(pre.values)
    /\ Len(values) > 0

\* C8: after any call of compress, with either value of save_results, len() = 0
\* or the last position is not Empty.
C8_NoTrailingGapAfterCompress == last.op = "compress" => NoTrailingGap(State)

\* compress called on a store with a trailing Empty position, and it moved a
\* position
C8_Witness ==
    /\ last.op = "compress"
    /\ ~NoTrailingGap(pre)
    /\ last.ret_pairs # <<>>
    /\ Len(values) > 0

\* C9: push returns the lowest Empty index and keeps len() when a position is
\* Empty, and returns the previous len() and grows the store by one only when
\* none is; the returned index is Used with the value afterwards.
C9_PushRecyclesLowestEmpty ==
    last.op = "push" =>
        /\ IF EmptyIndexes(pre) # {}
           THEN /\ last.ret_index \in EmptyIndexes(pre)
                /\ \A i \in EmptyIndexes(pre) : last.ret_index <= i
                /\ Len(values) = Len(pre.values)
           ELSE /\ last.ret_index = Len(pre.values)
                /\ Len(values) = Len(pre.values) + 1
        /\ last.ret_index < Len(values)
        /\ At(values, last.ret_index) = Used(last.value)

\* C10: contains_index(i) is true iff i < len() and the position is Used; get
\* and get_mut return the stored value exactly then and None otherwise, and
\* leave the container as it was.
C10_Lookup ==
    LET holds == /\ last.index < Len(values)
                 /\ At(values, last.index).tag = "Used"
    IN  /\ last.op = "contains_index" => last.ret_bool = holds
        /\ last.op \in {"get", "get_mut"} =>
               last.ret_opt = IF holds THEN Some(At(values, last.index).value)
                              ELSE None
        /\ last.op \in {"contains_index", "get", "get_mut"} => State = pre

\* get on a Reserved position
C10_Witness ==
    /\ last.op = "get"
    /\ last.index < Len(values)
    /\ At(values, last.index).tag = "Reserved"
    /\ last.ret_opt = None


\* every index of the store before the call, other than skip, holds after
\* the call what it held before
OthersUntouched(skip) ==
    \A j \in 0..(Len(pre.values) - 1) :
        j # skip => /\ j < Len(values)
                    /\ At(values, j) = At(pre.values, j)

\* C11: reserve_pos returns an index that is Reserved afterwards and counts
\* reserved_spaces_len() up by one; it takes the lowest member of vacancies
\* and keeps len() when vacancies is not empty, and appends one position at
\* the previous len() otherwise; no other position changes.
C11_ReservePos ==
    last.op = "reserve_pos" =>
        /\ last.ret_index < Len(values)
        /\ At(values, last.ret_index) = Reserved
        /\ reserved_spaces_len(State) = reserved_spaces_len(pre) + 1
        /\ IF pre.vacancies # <<>>
           THEN /\ last.ret_index \in Members(pre.vacancies)
                /\ \A i \in Members(pre.vacancies) : last.ret_index <= i
                /\ Len(values) = Len(pre.values)
           ELSE /\ last.ret_index = Len(pre.values)
                /\ Len(values) = Len(pre.values) + 1
        /\ OthersUntouched(last.ret_index)

\* reserve_pos with two vacancies to choose from
C11_Witness ==
    /\ last.op = "reserve_pos"
    /\ Len(pre.vacancies) >= 2
    /\ Len(vacancies) = Len(pre.vacancies) - 1

\* the position push_reserved / remove_reserved_pos was given is Reserved
GivenReserved ==
    /\ last.index < Len(pre.values)
    /\ At(pre.values, last.index).tag = "Reserved"

\* C12: push_reserved(i, v) on a Reserved position below len() makes it
\* Used(v), counts reserved_spaces_len() down by one and returns None;
\* otherwise it hands v back as Some(v) and changes nothing.
C12_PushReserved ==
    last.op = "push_reserved" =>
        IF GivenReserved
        THEN /\ last.ret_opt = None
             /\ values = SetAt(pre.values, last.index, Used(last.value))
             /\ vacancies = pre.vacancies
             /\ reserved_spaces_len(State) = reserved_spaces_len(pre) - 1
        ELSE /\ last.ret_opt = Some(last.value)
             /\ State = pre

\* a reservation filled while an Empty position exists elsewhere
C12_Witness ==
    /\ last.op = "push_reserved"
    /\ GivenReserved
    /\ last.ret_opt = None
    /\ EmptyIndexes(pre) # {}

\* C13: remove_reserved_pos(i) on a Reserved position below len() makes it
\* Empty, counts reserved_spaces_len() down by one and returns true; otherwise
\* it returns false and changes nothing.
C13_RemoveReservedPos ==
    last.op = "remove_reserved_pos" =>
        IF GivenReserved
        THEN /\ last.ret_bool = TRUE
             /\ values = SetAt(pre.values, last.index, Empty)
             /\ reserved_spaces_len(State) = reserved_spaces_len(pre) - 1
        ELSE /\ last.ret_bool = FALSE
             /\ State = pre

\* a reservation in the middle of the store cancelled
C13_Witness ==
    /\ last.op = "remove_reserved_pos"
    /\ GivenReserved
    /\ last.ret_bool
    /\ last.index + 1 < Len(values)


\* C14: reservation round trip.  i = reserve_pos() followed at once by
\* remove_reserved_pos(i) leaves len() and vacancies as they were before the
\* reserve_pos call.
C14_ReserveCancelRoundTrip ==
    last.op = "reserve_pos" =>
        LET cancelled == remove_reserved_pos(State, last.ret_index).s
        IN  /\ len(cancelled) = len(pre)
            /\ cancelled.vacancies = pre.vacancies

\* n cycles of i = reserve_pos(); remove_reserved_pos(i) in a row
RECURSIVE ReserveCancelCycles(_, _)
ReserveCancelCycles(s, n) ==
    IF n = 0 THEN s
    ELSE LET reserved == reserve_pos(s)
         IN  ReserveCancelCycles(remove_reserved_pos(reserved.s, reserved.ret).s,
                                 n - 1)

\* C15: over any number n >= 1 of reserve_pos / remove_reserved_pos cycles in
\* a row the store grows at most once: len() afterwards is at most len()
\* before plus one.
\* (the reserve_pos of the first cycle is the call that has just returned)
C15_CyclesGrowOnce ==
    last.op = "reserve_pos" =>
        LET cancelled == remove_reserved_pos(State, last.ret_index).s
        IN  \A n \in 1..MaxCycles :
                len(ReserveCancelCycles(cancelled, n - 1)) <= len(pre) + 1

\* C16: remove(i) on a position that is Used(v) returns Some(v); afterwards
\* contains_index(i) is false, every other index below the new len() holds
\* what it held, and the store is shorter by exactly the run of Empty
\* positions at its end: the positions dropped were Empty (or are i), the new
\* last position is not Empty, and vacancies holds the earlier vacancies and i
\* that are still below len().
C16_RemoveUsed ==
    (RemoveTookSlot /\ At(pre.values, last.index).tag = "Used") =>
        /\ last.ret_opt = Some(At(pre.values, last.index).value)
        /\ ~contains_index(State, last.index)
        /\ Len(values) <= Len(pre.values)
        /\ \A j \in 0..(Len(values) - 1) :
               IF j = last.index THEN At(values, j) = Empty
               ELSE At(values, j) = At(pre.values, j)
        /\ \A j \in Len(values)..(Len(pre.values) - 1) :
               j = last.index \/ At(pre.values, j).tag = "Empty"
        /\ NoTrailingGap(State)
        /\ Members(vacancies) =
               {k \in Members(pre.vacancies) \cup {last.index} : k < Len(values)}

\* as in the crate docs: a value in the middle has been removed (the store
\* kept its length), then the last one is, and both positions are dropped
C16_Witness ==
    /\ RemoveTookSlot
    /\ At(pre.values, last.index).tag = "Used"
    /\ last.index = Len(pre.values) - 1
    /\ Len(values) = Len(pre.values) - 2
    /\ Len(values) > 0
    /\ pre.vacancies = <<Len(pre.values) - 2>>
    /\ vacancies = <<>>

\* C17: remove(i) with i >= len() or on an Empty position returns None and
\* leaves values, vacancies and reserved_spaces as they were.
C17_RemoveNoOp ==
    (last.op = "remove" /\ ~RemoveTookSlot) =>
        /\ last.ret_opt = None
        /\ State = pre

\* remove on an Empty position that is in vacancies
C17_Witness ==
    /\ last.op = "remove"
    /\ last.index < Len(pre.values)
    /\ At(pre.values, last.index).tag = "Empty"
    /\ last.index \in Members(pre.vacancies)
    /\ last.ret_opt = None

\* C18: compress removes every Empty position: after compress no index below
\* len() is Empty and empty_spaces_len() is 0.
C18_CompressLeavesNoEmpty ==
    last.op = "compress" =>
        /\ EmptyIndexes(State) = {}
        /\ empty_spaces_len(State) = 0

\* the index a caller holds after passing h through update_old_indexes
Remapped(h) == update_old_indexes(last.ret_pairs, <<h>>)[1]

\* C19: handles survive compress(true) when remapped.  For every index h
\* that was Used(x) before the call, get of the index update_old_indexes
\* turns h into is x after the call; two handles never end on one index and
\* the number of stored values is what it was.
C19_HandlesSurviveCompress ==
    (last.op = "compress" /\ last.save_results) =>
        /\ \A h \in UsedIndexes(pre) :
               /\ get(State, Remapped(h)) = Some(At(pre.values, h).value)
               /\ Remapped(h) # h <=>
                      \E k \in 1..Len(last.ret_pairs) : last.ret_pairs[k][1] = h
        /\ \A h1, h2 \in UsedIndexes(pre) :
               h1 # h2 => Remapped(h1) # Remapped(h2)
        /\ Cardinality(UsedIndexes(State)) = Cardinality(UsedIndexes(pre))

\* a compress that moved one held value and left another where it was
C19_Witness ==
    /\ last.op = "compress"
    /\ last.save_results
    /\ \E h1, h2 \in UsedIndexes(pre) :
           /\ Remapped(h1) # h1
           /\ Remapped(h2) = h2
           /\ At(pre.values, h1).value # At(pre.values, h2).value

\* the parts of C20 that do not depend on what the old position held
PairsFillVacancies ==
    \A k \in 1..Len(last.ret_pairs) :
        LET old == last.ret_pairs[k][1]
            vacant == last.ret_pairs[k][2]
        IN  /\ vacant \in Members(pre.vacancies)
            /\ At(pre.values, vacant).tag = "Empty"
            /\ old < Len(pre.values)
            /\ old >= Len(values) \/ At(values, old).tag = "Empty"

\* C20 as stated: for compress(true) every pair (old, new) has new in
\* vacancies before the call, old Used before the call, and old at or above
\* len() or Empty after the call.
C20_PairsOldUsed ==
    (last.op = "compress" /\ last.save_results) =>
        /\ PairsFillVacancies
        /\ \A k \in 1..Len(last.ret_pairs) :
               At(pre.values, last.ret_pairs[k][1]).tag = "Used"

\* C20 amended: for compress(true) every pair (old, new) has new in
\* vacancies before the call, old Used or Reserved (not Empty) before the
\* call, and old at or above len() or Empty after the call.
C20_PairsOldNotEmpty ==
    (last.op = "compress" /\ last.save_results) =>
        /\ PairsFillVacancies
        /\ \A k \in 1..Len(last.ret_pairs) :
               At(pre.values, last.ret_pairs[k][1]).tag \in {"Used", "Reserved"}

\* a report with two pairs, one that moved a value and one that moved a
\* reservation
C20_Witness ==
    /\ last.op = "compress"
    /\ last.save_results
    /\ \E k1, k2 \in 1..Len(last.ret_pairs) :
           /\ At(pre.values, last.ret_pairs[k1][1]).tag = "Used"
           /\ At(pre.values, last.ret_pairs[k2][1]).tag = "Reserved"

\* the old indexes of the report of the last call
OldIndexes == {last.ret_pairs[k][1] : k \in 1..Len(last.ret_pairs)}

\* C21: low-index handles never move in compress.  Every index that is
\* Used before compress and below len() after it holds the same value after
\* the call and is not an old index of the report; with save_results the old
\* indexes of the report are exactly the non-Empty positions at or above the
\* len() after the call.
C21_LowIndexesStay ==
    last.op = "compress" =>
        /\ \A i \in UsedIndexes(pre) :
               i < len(State) =>
                   /\ At(values, i) = At(pre.values, i)
                   /\ i \notin OldIndexes
        /\ last.save_results =>
               OldIndexes = {i \in UsedIndexes(pre) \cup ReservedIndexes(pre) :
                                 i >= len(State)}

\* a compress that moved the value of the highest index and left a value of
\* a lower index where it was
C21_Witness ==
    /\ last.op = "compress"
    /\ last.save_results
    /\ OldIndexes # {}
    /\ \E i \in UsedIndexes(pre) :
           /\ i < len(State)
           /\ \E j \in EmptyIndexes(pre) : j < i

\* the indexes that were Empty before the last call and hold a Used or
\* Reserved position after it
FilledIndexes ==
    {i \in EmptyIndexes(pre) : i < len(State) /\ At(values, i).tag # "Empty"}

\* C22: with save_results the number of pairs of the report is the number of
\* moves performed, the number of indexes that were Empty before compress
\* and are not Empty after it, and it is at most the number of vacancies held
\* before the call.
C22_PairsCountMoves ==
    (last.op = "compress" /\ last.save_results) =>
        /\ Len(last.ret_pairs) = Cardinality(FilledIndexes)
        /\ Len(last.ret_pairs) <= Len(pre.vacancies)

\* a compress that moved fewer positions than it had vacancies
C22_Witness ==
    /\ last.op = "compress"
    /\ last.save_results
    /\ Len(last.ret_pairs) >= 1
    /\ Len(last.ret_pairs) < Len(pre.vacancies)

\* C23: compress never increases len(), with either value of save_results.
C23_CompressNeverGrows ==
    last.op = "compress" => len(State) <= len(pre)

\* a compress that swapped a position and made the store shorter
C23_Witness ==
    /\ last.op = "compress"
    /\ FilledIndexes # {}
    /\ len(State) < len(pre)

\* the new indexes of the pairs of a report whose old index is the given one
NewIndexesOf(report, index) ==
    {report[k][2] : k \in {j \in 1..Len(report) : report[j][1] = index}}

\* C24: update_old_indexes replaces every supplied index that is the old
\* index of a pair of the report by the new index of such a pair (the first
\* one in the report) and leaves every other supplied index as it was; the
\* number and order of the supplied indexes stay.
C24_UpdateOldIndexes ==
    last.op \in {"update_old_indexes", "update_again"} =>
        /\ Len(last.ret_indexes) = Len(last.old_indexes)
        /\ \A k \in 1..Len(last.old_indexes) :
               LET index == last.old_indexes[k]
                   news == NewIndexesOf(last.ret_pairs, index)
               IN  IF news = {}
                   THEN last.ret_indexes[k] = index
                   ELSE /\ last.ret_indexes[k] \in news
                        /\ \E j \in 1..Len(last.ret_pairs) :
                               /\ last.ret_pairs[j] = <<index, last.ret_indexes[k]>>
                               /\ \A i \in 1..(j - 1) : last.ret_pairs[i][1] # index

\* a call that replaced one supplied index and left another as it was
C24_Witness ==
    /\ last.op = "update_old_indexes"
    /\ \E k1, k2 \in 1..Len(last.old_indexes) :
           /\ last.ret_indexes[k1] # last.old_indexes[k1]
           /\ NewIndexesOf(last.ret_pairs, last.old_indexes[k2]) = {}
           /\ last.ret_indexes[k2] = last.old_indexes[k2]

\* the index sequences a caller may hold next to a FixedIndexVec
HeldIndexes == UNION {[1..k -> Indexes] : k \in 0..MaxHandles}

\* C25: update_old_indexes is idempotent on updated handles.  For the report
\* of any compress(true) and any indexes, passing the indexes through the
\* report a second time changes none of them.
C25_UpdateIdempotent ==
    (last.op = "compress" /\ last.save_results) =>
        \A held \in HeldIndexes :
            LET once == update_old_indexes(last.ret_pairs, held)
            IN  update_old_indexes(last.ret_pairs, once) = once

\* a compress(true) whose report changes the index of a stored value
C25_Witness ==
    /\ last.op = "compress"
    /\ last.save_results
    /\ \E h \in UsedIndexes(pre) :
           update_old_indexes(last.ret_pairs, <<h>>) # <<h>>

\* eq returned true, in a build with and in one without overflow checks
EqTrue(self, other) ==
    \A overflow_checks \in BOOLEAN :
        eq(self, other, overflow_checks) = [panic |-> FALSE, value |-> TRUE]

\* C26: clear() called in any reachable state yields the empty state: len(),
\* empty_spaces_len() and reserved_spaces_len() are 0 and the container
\* compares equal to new().
C26_ClearYieldsNew ==
    last.op = "clear" =>
        /\ len(State) = 0
        /\ empty_spaces_len(State) = 0
        /\ reserved_spaces_len(State) = 0
        /\ EqTrue(State, new)
        /\ EqTrue(new, State)

\* a clear of a container that held a value, a reservation and a vacancy
C26_Witness ==
    /\ last.op = "clear"
    /\ UsedIndexes(pre) # {}
    /\ pre.reserved_spaces > 0
    /\ pre.vacancies # <<>>

\* equal len(), reserved count and vacancy count, and the same position at
\* every index
SameContent(self, other) ==
    /\ len(self) = len(other)
    /\ reserved_spaces_len(self) = reserved_spaces_len(other)
    /\ empty_spaces_len(self) = empty_spaces_len(other)
    /\ self.values = other.values

\* C27: for two reachable containers eq returns true iff they have equal
\* len(), equal reserved count, equal vacancy count and equal slot-by-slot
\* content.  The two containers are the one before and the one after a call
\* (the same container once the call has returned).
C27_EqIffSameContent ==
    \A overflow_checks \in BOOLEAN :
        LET result == eq(State, pre, overflow_checks)
        IN  /\ ~result.panic
            /\ result.value <=> SameContent(State, pre)

\* the same index-to-value map of Used positions, the same vacancy set and
\* the same reserved count
SameUsedVacantReserved(self, other) ==
    /\ UsedIndexes(self) = UsedIndexes(other)
    /\ \A i \in UsedIndexes(self) : At(self.values, i) = At(other.values, i)
    /\ Members(self.vacancies) = Members(other.vacancies)
    /\ reserved_spaces_len(self) = reserved_spaces_len(other)

\* C28: equality is history-independent.  Two containers built from the
\* same values and driven by different pushes and removes that end with the
\* same index-to-value map of Used positions, the same vacancy set and the
\* same reserved count compare equal, in both argument orders.
C28_EqHistoryIndependent ==
    SameUsedVacantReserved(State, second) =>
        /\ EqTrue(State, second)
        /\ EqTrue(second, State)

\* two containers that agree and hold a value and a vacancy, where only the
\* second ever pushed into a vacancy
C28_Witness ==
    /\ SameUsedVacantReserved(State, second)
    /\ UsedIndexes(State) # {}
    /\ vacancies # <<>>
    /\ ~reused.self
    /\ reused.other

\* the k-th smallest member of a set of indexes
Nth(indexes, k) ==
    CHOOSE i \in indexes : Cardinality({j \in indexes : j < i}) = k - 1

\* the values of the Used positions in ascending index order
UsedValuesInOrder(s) ==
    [k \in 1..Cardinality(UsedIndexes(s)) |-> At(s.values, Nth(UsedIndexes(s), k)).value]

\* C29: iter(), iter_mut() and the inherent into_iter() yield exactly the
\* values of the Used positions in ascending index order, skip Reserved and
\* Empty positions, and never reach their panic!() branch.
C29_IterYieldsUsedInOrder ==
    last.op \in {"iter", "iter_mut", "into_iter"} =>
        /\ ~last.panic
        /\ last.ret_items = UsedValuesInOrder(pre)

\* an iteration over different values with a Reserved and an Empty position
\* before the last of them
C29_Witness ==
    /\ last.op \in {"iter", "iter_mut", "into_iter"}
    /\ Len(last.ret_items) >= 2
    /\ last.ret_items[1] # last.ret_items[2]
    /\ \E r \in ReservedIndexes(pre), e \in EmptyIndexes(pre), u \in UsedIndexes(pre) :
           r < u /\ e < u

\* push called on each value in order
RECURSIVE PushEach(_, _)
PushEach(s, items) ==
    IF items = <<>> THEN s ELSE PushEach(push(s, Head(items)).s, Tail(items))

\* where the k-th value of an extend lands: the k-th vacancy while there is
\* one, the next new position after that
LandingIndex(s, k) ==
    IF k <= Len(s.vacancies) THEN s.vacancies[k]
    ELSE len(s) + (k - Len(s.vacancies)) - 1

\* C30: bulk construction.  from(values) yields a store where index k is
\* Used with the k-th value, with no vacancies and reserved count 0;
\* extend(values) produces the state that push on each value in order
\* produces, filling the vacancies in ascending order first and growing
\* only then.
C30_BulkConstruction ==
    /\ last.op = "from" =>
           /\ len(State) = Len(last.items)
           /\ \A k \in 1..Len(last.items) : At(values, k - 1) = Used(last.items[k])
           /\ vacancies = <<>>
           /\ reserved_spaces = 0
    /\ last.op = "extend" =>
           /\ State = PushEach(pre, last.items)
           /\ StrictlyAscending(pre.vacancies)
           /\ \A k \in 1..Len(last.items) :
                  At(values, LandingIndex(pre, k)) = Used(last.items[k])
           /\ len(State) = len(pre) + IF Len(last.items) > Len(pre.vacancies)
                                      THEN Len(last.items) - Len(pre.vacancies)
                                      ELSE 0

\* an extend whose first value filled the only vacancy and whose second
\* value made the store grow
C30_Witness ==
    /\ last.op = "extend"
    /\ Len(pre.vacancies) = 1
    /\ Len(last.items) = 2
    /\ last.items[1] # last.items[2]
    /\ len(State) = len(pre) + 1

\* the tag of the position at an index after the last call; "Gone" when the
\* index is no longer below len()
TagAfter(i) == IF i < Len(values) THEN At(values, i).tag ELSE "Gone"

\* C31: slot lifecycle.  At a fixed index a position leaves Reserved only by
\* push_reserved on it (to Used) or by remove_reserved_pos on it (to Empty),
\* apart from clear; remove never changes a Reserved position, and no
\* operation takes a position from Used to Reserved.
C31_SlotLifecycle ==
    /\ \A i \in ReservedIndexes(pre) :
           \/ TagAfter(i) = "Reserved"
           \/ last.op = "push_reserved" /\ last.index = i /\ TagAfter(i) = "Used"
           \/ last.op = "remove_reserved_pos" /\ last.index = i /\ TagAfter(i) = "Empty"
           \/ last.op = "clear"
    /\ \A i \in UsedIndexes(pre) : TagAfter(i) # "Reserved"

\* C32: vacancy list soundness.  vacancies is strictly ascending, every
\* member is below len() and the position at every member is Empty; so the
\* index push and reserve_pos return, and every index extend fills, was Empty
\* or was the len() of the moment, never a Used or Reserved position.
C32_VacanciesSound ==
    /\ StrictlyAscending(vacancies)
    /\ \A k \in 1..Len(vacancies) :
           /\ vacancies[k] < len(State)
           /\ At(values, vacancies[k]).tag = "Empty"
    /\ last.op \in {"push", "reserve_pos"} =>
           /\ last.ret_index <= len(pre)
           /\ last.ret_index < len(pre) => At(pre.values, last.ret_index).tag = "Empty"
    /\ last.op = "extend" =>
           \A i \in UsedIndexes(pre) \cup ReservedIndexes(pre) :
               TagAfter(i) = At(pre.values, i).tag /\ At(values, i) = At(pre.values, i)

\* a state with two vacancies below a Used position, reached by a push that
\* filled the lowest of three
C32_Witness ==
    /\ last.op = "push"
    /\ Len(pre.vacancies) = 3
    /\ Len(vacancies) = 2
    /\ last.ret_index = pre.vacancies[1]

\* C33: used_spaces_len() never underflows: reserved_spaces +
\* vacancies.len() <= values.len() in every reachable state.
C33_NoUnderflow ==
    /\ reserved_spaces + Len(vacancies) <= Len(values)
    /\ used_spaces_len(State, TRUE).panic = FALSE
    /\ used_spaces_len(State, FALSE).value < Len(values) + 1

\* the store of the crate documentation, [A, _, C, D, E, _, G, H] with the
\* values written as their positions in the alphabet
DocExample ==
    [values |-> <<Used(1), Empty, Used(3), Used(4), Used(5), Empty, Used(7), Used(8)>>,
     vacancies |-> <<1, 5>>,
     reserved_spaces |-> 0]

\* C34: shape of the compress report.  In the report of compress(true), in
\* the order listed, the new indexes are strictly ascending, the old indexes
\* are strictly descending and every old index is greater than every new
\* index; vacancies {1, 5} in the store of length 8 of the documentation
\* give [(7, 1), (6, 5)] and the store [A, H, C, D, E, G].
C34_ReportShape ==
    /\ (last.op = "compress" /\ last.save_results) =>
           LET report == last.ret_pairs
           IN  /\ \A k \in 1..(Len(report) - 1) :
                      /\ report[k][2] < report[k + 1][2]
                      /\ report[k][1] > report[k + 1][1]
               /\ \A k, j \in 1..Len(report) : report[k][1] > report[j][2]
    /\ compress(DocExample, TRUE) =
           [s |-> [values |-> <<Used(1), Used(8), Used(3), Used(4), Used(5), Used(7)>>,
                   vacancies |-> <<>>,
                   reserved_spaces |-> 0],
            ret |-> <<<<7, 1>>, <<6, 5>>>>]

\* a report of two pairs
C34_Witness ==
    /\ last.op = "compress"
    /\ last.save_results
    /\ Len(last.ret_pairs) = 2

\* C35: save_results only affects the report.  From the same state
\* compress(false) and compress(true) leave the same values, vacancies and
\* reserved_spaces, and compress(false) returns an empty report.
C35_FlagOnlyAffectsReport ==
    last.op = "compress" =>
        /\ State = compress(pre, TRUE).s
        /\ State = compress(pre, FALSE).s
        /\ compress(pre, FALSE).ret = <<>>
        /\ ~last.save_results => last.ret_pairs = <<>>

\* a compress(false) that moved a position, from a state where compress(true)
\* reports the move
C35_Witness ==
    /\ last.op = "compress"
    /\ ~last.save_results
    /\ FilledIndexes # {}
    /\ compress(pre, TRUE).ret # <<>>

\* C36: compress is idempotent.  compress(true) right after a compress
\* returns an empty report and leaves values, vacancies and reserved_spaces
\* as they are; so does either compress on a state with no vacancies and no
\* trailing Empty position.
C36_CompressIdempotent ==
    /\ last.op = "compress" =>
           compress(State, TRUE) = [s |-> State, ret |-> <<>>]
    /\ (vacancies = <<>> /\ NoTrailingGap(State)) =>
           \A save_results \in BOOLEAN :
               compress(State, save_results) = [s |-> State, ret |-> <<>>]

\* a compress that moved a position and left an Empty position it could not
\* see, with a second compress still to come
C36_Witness ==
    /\ last.op = "compress"
    /\ FilledIndexes # {}
    /\ EmptyIndexes(State) # {}

\* remove of the index the last push returned gives the value back and
\* leaves the fields as they were before the push
PushRemoveRestores ==
    remove(State, last.ret_index) = [s |-> pre, ret |-> Some(last.value)]

\* C37 as stated: in any reachable state, i = push(v) followed at once by
\* remove(i) returns Some(v) and restores values, vacancies and
\* reserved_spaces to what they were before the push.
C37_PushRemoveRoundTrip == last.op = "push" => PushRemoveRestores

\* C37 amended: the same, for a push in a state whose last position is not
\* Empty (or that has no position).
C37_PushRemoveRoundTripTrimmed ==
    (last.op = "push" /\ NoTrailingGap(pre)) => PushRemoveRestores

\* a push into the lowest of two vacancies, with an Empty position that is
\* not in vacancies elsewhere in the store
C37_Witness ==
    /\ last.op = "push"
    /\ NoTrailingGap(pre)
    /\ Len(pre.vacancies) = 2
    /\ last.ret_index = pre.vacancies[1]
    /\ Cardinality(EmptyIndexes(pre)) = 3

\* the calls of C38: everything but compress, clean_right and clear
StableOps ==
    {"push", "remove", "reserve_pos", "push_reserved", "remove_reserved_pos", "extend"}

\* C38: handle stability under reservations.  In any sequence of push,
\* remove, reserve_pos, push_reserved, remove_reserved_pos and extend, an
\* index that became Used with value v by push(v) or push_reserved(i, v)
\* keeps contains_index(i) = true and get(i) = v until remove(i).  As a
\* step: push and a push_reserved that returns None leave their index Used
\* with their value, and each of the calls keeps every Used index and its
\* value except the index a remove is called on.
C38_HandleStabilityReservations ==
    last.op \in StableOps =>
        /\ last.op = "push" =>
               /\ contains_index(State, last.ret_index)
               /\ get(State, last.ret_index) = Some(last.value)
        /\ (last.op = "push_reserved" /\ ~last.ret_opt.some) =>
               /\ contains_index(State, last.index)
               /\ get(State, last.index) = Some(last.value)
        /\ \A i \in Indexes :
               (contains_index(pre, i) /\ ~(last.op = "remove" /\ last.index = i))
                   => /\ contains_index(State, i)
                      /\ get(State, i) = get(pre, i)

\* a push_reserved that filled a reservation below a stored value of
\* another kind
C38_Witness ==
    /\ last.op = "push_reserved"
    /\ ~last.ret_opt.some
    /\ get(State, last.index) = Some(last.value)
    /\ \E i \in UsedIndexes(pre) :
           /\ last.index < i
           /\ get(State, i) = get(pre, i)
           /\ get(pre, i) # Some(last.value)

\* the loop of the last compress, run again from the fields it started with
LoopOfLastCompress ==
    LET trimmed == clean_right(pre)
    IN  CompressLoop(trimmed.values, trimmed.vacancies, Len(trimmed.values), <<>>,
                     last.save_results)

\* C39: compress never faults on its cursor.  Whenever the loop reads
\* values[end_cursor] or swaps (vacant, end_cursor), vacant < end_cursor <
\* values.len() holds, and end_cursor is at least 1 whenever it is
\* decremented, also when index 0 is a vacancy.
C39_CursorInBounds ==
    last.op = "compress" =>
        LET looped == LoopOfLastCompress
            length == Len(clean_right(pre).values)
        IN  /\ ~looped.panic
            /\ \A k \in 1..Len(looped.accesses) :
                   LET access == looped.accesses[k]
                   IN  /\ access.op \in {"read", "swap"} =>
                              /\ access.vacant < access.end_cursor
                              /\ access.end_cursor < length
                       /\ access.op \in {"decrement", "skip"} =>
                              access.end_cursor >= 1

\* a compress with index 0 among the vacancies whose cursor swapped a
\* position and later walked down over Empty positions to the vacancy
C39_Witness ==
    /\ last.op = "compress"
    /\ pre.vacancies # <<>>
    /\ pre.vacancies[1] = 0
    /\ \E k, j \in 1..Len(LoopOfLastCompress.accesses) :
           /\ k < j
           /\ LoopOfLastCompress.accesses[k].op = "swap"
           /\ LoopOfLastCompress.accesses[j].op = "skip"
           /\ LoopOfLastCompress.accesses[j].end_cursor - 1 =
                  LoopOfLastCompress.accesses[j].vacant

====
